---- MODULE Spec2Model ----
(***************************************************************************)
(* Model of src/src/firestore/firestore.ts: the FiremanQL query engine.    *)
(* query() classifies the parsed components (getQueryType), walks them     *)
(* into a store reference (parseQuery) and either fetches once (getResult) *)
(* or installs a snapshot listener (setListener).                          *)
(*                                                                         *)
(* Two specifications share the operators that model the code:             *)
(*   PureSpec  applies getQueryType / parseQuery's walk to every component *)
(*             sequence up to MaxLen;                                      *)
(*   Spec      runs query() calls, store fetches and store notifications.  *)
(***************************************************************************)
EXTENDS Integers, Sequences, FiniteSets, TLC

(***************************************************************************)
(* Bounds                                                                  *)
(***************************************************************************)
\* longest component sequence explored by PureSpec
MaxLen == 4
\* number of query() calls in one behaviour of Spec
MaxQueries == 2
\* number of query() calls in one behaviour of ConnSpec
MaxConnQueries == 3
\* number of store events (fetch results, notifications, errors, calls of
\* the unsubscribe handle) in one behaviour of Spec
MaxEvents == 2

(***************************************************************************)
(* Option values: null is the empty sequence, a value v is <<v>>.          *)
(***************************************************************************)
Null == <<>>
Some(v) == <<v>>

(***************************************************************************)
(* Components produced by FQLParser.parse (enum ComponentType).            *)
(***************************************************************************)
LITERAL == "literal"
ALL == "all"
COLLECTION_EXPRESSION == "collectionExpression"
DOCUMENT_EXPRESSION == "documentExpression"

\* enum QueryType
DOCUMENT == "DOCUMENT"
COLLECTION == "COLLECTION"

Literal(v) == [type |-> LITERAL, value |-> v, components |-> <<>>]
All == [type |-> ALL, value |-> "", components |-> <<>>]
CollectionExpression(cs) == [type |-> COLLECTION_EXPRESSION, value |-> "", components |-> cs]
DocumentExpression(fs) == [type |-> DOCUMENT_EXPRESSION, value |-> "", components |-> fs]

\* sub-components of a collection expression
Where == [type |-> "where", arg |-> "name"]
Limit == [type |-> "limit", arg |-> "1"]
Order == [type |-> "order", arg |-> "name"]
\* a sub-component of a type the code does not know
Other == [type |-> "other", arg |-> ""]

Names == {"a", "b"}
ExpressionLists == {<<Where>>, <<Limit, Order>>, <<Other, Where>>}
FieldLists == {<<>>, <<"name">>}

ComponentSet ==
  {Literal(v) : v \in Names} \cup {All}
    \cup {CollectionExpression(cs) : cs \in ExpressionLists}
    \cup {DocumentExpression(fs) : fs \in FieldLists}

SeqsUpTo(S, n) == UNION {[1..k -> S] : k \in 0..n}

(***************************************************************************)
(* getQueryType                                                            *)
(***************************************************************************)
getQueryTypeOdd(components) ==
  IF Len(components) % 2 = 1 THEN COLLECTION ELSE DOCUMENT

getQueryType(components) ==
  IF Len(SelectSeq(components, LAMBDA c : c.type = LITERAL)) % 2 # 0
    THEN COLLECTION
    ELSE DOCUMENT

(***************************************************************************)
(* Store references (the store client's Firestore, CollectionReference,    *)
(* DocumentReference and Query objects).                                   *)
(***************************************************************************)
RootRef == [kind |-> "firestore", path |-> <<>>, refinements |-> <<>>]

\* reference.collection(url): Firestore and DocumentReference have it
HasCollection(ref) == ref.kind \in {"firestore", "document"}
collection(ref, url) ==
  [kind |-> "collection", path |-> Append(ref.path, url), refinements |-> <<>>]

\* reference.doc(url): Firestore and CollectionReference have it
HasDoc(ref) == ref.kind \in {"firestore", "collection"}
doc(ref, url) ==
  [kind |-> "document", path |-> Append(ref.path, url), refinements |-> <<>>]

\* where / limit / orderBy return a Query built on the receiver
refine(ref, ec) ==
  [kind |-> "query", path |-> ref.path, refinements |-> Append(ref.refinements, ec)]

IsCollectionReferenceAny(ref) == TRUE

\* reference instanceof CollectionReference
IsCollectionReference(ref) == ref.kind = "collection"

(***************************************************************************)
(* parseQuery, lines 100-149: the walk over the components.  The state of  *)
(* the walk is the record w; w.error is set when a store-client call       *)
(* throws (the method does not exist on the cursor).                       *)
(***************************************************************************)
WalkInit ==
  [reference |-> RootRef, collection |-> TRUE, specificProperties |-> <<>>,
   documentExpression |-> FALSE, error |-> Null]

RECURSIVE applyExpression(_, _)
applyExpression(ref, ecs) ==
  IF ecs = <<>> THEN ref
  ELSE LET ec == Head(ecs) IN
       IF ec.type \in {"where", "limit", "order"}
         THEN applyExpression(refine(ref, ec), Tail(ecs))
         ELSE applyExpression(ref, Tail(ecs))

\* case ComponentType.LITERAL, lines 106-115
onLiteralNoAlternation(w, component) ==
  IF HasCollection(w.reference)
    THEN [w EXCEPT !.collection = FALSE,
                   !.reference = collection(w.reference, component.value)]
    ELSE [w EXCEPT !.collection = FALSE, !.error = Some("TypeError")]

onLiteral(w, component) ==
  IF w.collection
    THEN IF HasCollection(w.reference)
           THEN [w EXCEPT !.collection = FALSE,
                          !.reference = collection(w.reference, component.value)]
           ELSE [w EXCEPT !.collection = FALSE, !.error = Some("TypeError")]
    ELSE IF HasDoc(w.reference)
           THEN [w EXCEPT !.collection = TRUE,
                          !.reference = doc(w.reference, component.value)]
           ELSE [w EXCEPT !.collection = TRUE, !.error = Some("TypeError")]

\* case ComponentType.ALL, lines 116-118
onAll(w) == [w EXCEPT !.collection = TRUE]

\* case ComponentType.COLLECTION_EXPRESSION, lines 119-138
onCollectionExpression(w, component) ==
  IF IsCollectionReference(w.reference)
    THEN [w EXCEPT !.reference = applyExpression(w.reference, component.components)]
    ELSE w

\* case ComponentType.DOCUMENT_EXPRESSION, lines 139-142
onDocumentExpressionFirstWins(w, component) ==
  IF w.documentExpression
    THEN w
    ELSE [w EXCEPT !.specificProperties = component.components,
                   !.documentExpression = TRUE]

onDocumentExpression(w, component) ==
  [w EXCEPT !.specificProperties = component.components,
            !.documentExpression = TRUE]

walkStep(w, component) ==
  IF w.error # Null THEN w
  ELSE IF component.type = LITERAL THEN onLiteral(w, component)
  ELSE IF component.type = ALL THEN onAll(w)
  ELSE IF component.type = COLLECTION_EXPRESSION THEN onCollectionExpression(w, component)
  ELSE IF component.type = DOCUMENT_EXPRESSION THEN onDocumentExpression(w, component)
  ELSE w

RECURSIVE walkFrom(_, _)
walkFrom(w, components) ==
  IF components = <<>> THEN w
  ELSE walkFrom(walkStep(w, Head(components)), Tail(components))

walk(components) == walkFrom(WalkInit, components)

\* the state of the walk before the first component and after each one
RECURSIVE walkTraceFrom(_, _)
walkTraceFrom(w, components) ==
  IF components = <<>> THEN <<w>>
  ELSE <<w>> \o walkTraceFrom(walkStep(w, Head(components)), Tail(components))

walkTrace(components) == walkTraceFrom(WalkInit, components)

(***************************************************************************)
(* parseQuery, lines 86-98: the per-project store connection.  apps is     *)
(* firebaseAppsInitialized, project is auth.getCurrentProject().  require  *)
(* of the service account of a project without one throws before anything *)
(* is initialised.                                                         *)
(***************************************************************************)
Projects == {"p1", "bad"}
MissingProjects == {"bad"}

Range(s) == {s[i] : i \in DOMAIN s}

connectUnchecked(apps, project) ==
  IF project \in MissingProjects
    THEN [apps |-> apps, initialized |-> Null, error |-> Some("ConnectionError")]
    ELSE [apps |-> Append(apps, project), initialized |-> Some(project), error |-> Null]

connect(apps, project) ==
  IF project \in Range(apps)
    THEN [apps |-> apps, initialized |-> Null, error |-> Null]
    ELSE IF project \in MissingProjects
      THEN [apps |-> apps, initialized |-> Null, error |-> Some("ConnectionError")]
      ELSE [apps |-> Append(apps, project), initialized |-> Some(project), error |-> Null]

(***************************************************************************)
(* Snapshots handed over by the store client.                              *)
(***************************************************************************)
DocIds == {"x", "y"}

FullData == [f \in {"name", "email"} |-> IF f = "name" THEN 1 ELSE 2]
PartData == [f \in {"email"} |-> 3]
NoData == [f \in {} |-> 0]

DataOf(id) == IF id = "x" THEN FullData ELSE PartData

\* DocumentSnapshot of a DocumentReference: it may or may not exist
DocumentSnapshots(ref) ==
  {[ref |-> ref, exists |-> TRUE, data |-> FullData],
   [ref |-> ref, exists |-> FALSE, data |-> NoData]}

\* QueryDocumentSnapshot: a document of a query result, exists is always true
QueryDocumentSnapshot(ref, id) ==
  [ref |-> doc([ref EXCEPT !.kind = "collection", !.refinements = <<>>], id),
   exists |-> TRUE, data |-> DataOf(id)]

\* QuerySnapshot of a CollectionReference or Query: distinct documents, in
\* the order the store chose
QuerySnapshots(ref) ==
  {[i \in 1..Len(ids) |-> QueryDocumentSnapshot(ref, ids[i])] :
     ids \in {s \in SeqsUpTo(DocIds, Cardinality(DocIds)) :
                \A i, j \in DOMAIN s : i # j => s[i] # s[j]}}

\* reference.onSnapshot / reference.get exist on DocumentReference,
\* CollectionReference and Query, not on the Firestore root
HasOnSnapshot(ref) == ref.kind \in {"document", "collection", "query"}
HasGet(ref) == ref.kind \in {"document", "collection", "query"}

(***************************************************************************)
(* Document (./document) and QueryResult (./query-result)                  *)
(***************************************************************************)
fromDocumentReference(ref) ==
  [location |-> ref, data |-> NoData, exists |-> FALSE]

setData(document, snapshot, specificProperties) ==
  [document EXCEPT
     !.data = IF Len(specificProperties) > 0
                THEN [f \in DOMAIN snapshot.data \cap Range(specificProperties)
                        |-> snapshot.data[f]]
                ELSE snapshot.data,
     !.exists = snapshot.exists]

QueryResult(documents, projected) ==
  [documents |-> documents, projected |-> projected]

(***************************************************************************)
(* getResult, lines 152-173, from the point where reference.get() has      *)
(* returned its snapshot.                                                  *)
(***************************************************************************)
getResultDocumentEmpty(reference, snapshot, specificProperties) ==
  IF snapshot.exists
    THEN [documents |-> <<setData(fromDocumentReference(reference), snapshot,
                                  specificProperties)>>,
          error |-> Null]
    ELSE [documents |-> <<>>, error |-> Null]

getResultDocument(reference, snapshot, specificProperties) ==
  IF snapshot.exists
    THEN [documents |-> <<setData(fromDocumentReference(reference), snapshot,
                                  specificProperties)>>,
          error |-> Null]
    ELSE [documents |-> <<>>, error |-> Some("No such document")]

getResultCollectionReversed(snapshot, specificProperties) ==
  [documents |-> [i \in 1..Len(snapshot) |->
                    setData(fromDocumentReference(snapshot[Len(snapshot) + 1 - i].ref),
                            snapshot[Len(snapshot) + 1 - i], specificProperties)],
   error |-> Null]

getResultCollection(snapshot, specificProperties) ==
  [documents |-> [i \in 1..Len(snapshot) |->
                    setData(fromDocumentReference(snapshot[i].ref), snapshot[i],
                            specificProperties)],
   error |-> Null]

(***************************************************************************)
(* setListener, lines 36-60: the three callbacks handed to onSnapshot.     *)
(* Each returns the arguments of the onChangeListener call it makes.       *)
(***************************************************************************)
onDocumentSnapshotEmpty(snapshot, specificProperties) ==
  IF snapshot.exists
    THEN [result |-> Some(QueryResult(
                       <<setData(fromDocumentReference(snapshot.ref), snapshot,
                                 specificProperties)>>,
                       Len(specificProperties) > 0)),
          error |-> Null]
    ELSE [result |-> Some(QueryResult(<<>>, Len(specificProperties) > 0)),
          error |-> Null]

onDocumentSnapshot(snapshot, specificProperties) ==
  IF snapshot.exists
    THEN [result |-> Some(QueryResult(
                       <<setData(fromDocumentReference(snapshot.ref), snapshot,
                                 specificProperties)>>,
                       Len(specificProperties) > 0)),
          error |-> Null]
    ELSE [result |-> Null, error |-> Some("No such document")]

onQuerySnapshotFirst(snapshot, specificProperties) ==
  LET existing == SelectSeq(snapshot, LAMBDA d : d.exists)
      first == SubSeq(existing, 1, IF Len(existing) > 1 THEN 1 ELSE Len(existing))
  IN [result |-> Some(QueryResult(
                   [i \in 1..Len(first) |->
                      setData(fromDocumentReference(first[i].ref), first[i],
                              specificProperties)],
                   Len(specificProperties) > 0)),
      error |-> Null]

onQuerySnapshot(snapshot, specificProperties) ==
  LET existing == SelectSeq(snapshot, LAMBDA d : d.exists)
  IN [result |-> Some(QueryResult(
                   [i \in 1..Len(existing) |->
                      setData(fromDocumentReference(existing[i].ref), existing[i],
                              specificProperties)],
                   Len(specificProperties) > 0)),
      error |-> Null]

onSnapshotErrorBoth(error) ==
  [result |-> Some(QueryResult(<<>>, FALSE)), error |-> Some(error)]

onSnapshotError(error) == [result |-> Null, error |-> Some(error)]

\* the onChangeListener(...) invocation itself: the call joins the calls the
\* listener has received, in invocation order
deliverCoalesced(received, call) ==
  IF received # <<>> /\ received[Len(received)] = call
    THEN received
    ELSE Append(received, call)

deliver(received, call) == Append(received, call)

\* unsubscribeListener = reference.onSnapshot(...), lines 38 and 48: the store
\* registers the listener and the returned handle overwrites the slot
registerReleasing(subs, slot, sub) ==
  [subscriptions |->
     Append(IF slot # 0 THEN [subs EXCEPT ![slot].status = "cancelled"] ELSE subs, sub),
   unsubscribeListener |-> Len(subs) + 1]

register(subs, slot, sub) ==
  [subscriptions |-> Append(subs, sub), unsubscribeListener |-> Len(subs) + 1]

(***************************************************************************)
(* query, lines 30-33: the catch block.  Returns the listener call it      *)
(* makes (none without a listener) and the promise it returns.             *)
(***************************************************************************)
Pending == [state |-> "pending", value |-> Null, error |-> Null]
Fulfilled(v) == [state |-> "fulfilled", value |-> v, error |-> Null]
Rejected(e) == [state |-> "rejected", value |-> Null, error |-> Some(e)]

queryCatchWrapped(listener, e) ==
  [calls |-> IF listener THEN <<[result |-> Null, error |-> Some("Error")]>> ELSE <<>>,
   promise |-> Rejected("Error")]

queryCatch(listener, e) ==
  [calls |-> IF listener THEN <<[result |-> Null, error |-> Some(e)]>> ELSE <<>>,
   promise |-> Rejected(e)]

(***************************************************************************)
(* State                                                                   *)
(***************************************************************************)
VARIABLES
  queryComponents,         \* PureSpec: the component sequence under study
  classified,              \* PureSpec: Some(getQueryType(queryComponents)) once run
  parsed,                  \* PureSpec: Some(walk(queryComponents)) once run
  walked,                  \* PureSpec: walkTrace(queryComponents) once run
  firebaseAppsInitialized, \* line 80
  firestore,               \* line 81: project of the current handle, or Null
  unsubscribeListener,     \* line 9: 0 is undefined, else a subscription handle
  queries,                 \* the query() calls made so far, in call order
  calls,                   \* calls[q]: the onChangeListener invocations of call q
  subscriptions,           \* the store's onSnapshot registrations; handle = index;
                           \* overwrote: the events the subscription whose handle
                           \* it replaced in the slot had received by then
  storeEvents              \* number of store events so far

pureVars == <<queryComponents, classified, parsed, walked>>
execVars == <<firebaseAppsInitialized, firestore,
              unsubscribeListener, queries, calls, subscriptions, storeEvents>>
vars == <<queryComponents, classified, parsed, walked,
          firebaseAppsInitialized, firestore, unsubscribeListener, queries,
          calls, subscriptions, storeEvents>>

ExecInit ==
  /\ firebaseAppsInitialized = <<>>
  /\ firestore = Null
  /\ unsubscribeListener = 0
  /\ queries = <<>>
  /\ calls = <<>>
  /\ subscriptions = <<>>
  /\ storeEvents = 0

(***************************************************************************)
(* PureSpec                                                                *)
(***************************************************************************)
PureInit ==
  /\ queryComponents \in SeqsUpTo(ComponentSet, MaxLen)
  /\ classified = Null
  /\ parsed = Null
  /\ walked = <<>>
  /\ ExecInit

Classify ==
  /\ classified = Null
  /\ classified' = Some(getQueryType(queryComponents))
  /\ UNCHANGED <<queryComponents, parsed, walked>>
  /\ UNCHANGED execVars

Build ==
  /\ parsed = Null
  /\ parsed' = Some(walk(queryComponents))
  /\ walked' = walkTrace(queryComponents)
  /\ UNCHANGED <<queryComponents, classified>>
  /\ UNCHANGED execVars

PureNext == Classify \/ Build

PureSpec == PureInit /\ [][PureNext]_vars

(***************************************************************************)
(* Spec: query() calls against a store.                                    *)
(***************************************************************************)
\* what FQLParser.parse returns or throws for the query strings of the model
QueryStrings ==
  { <<>>,
    <<Literal("a")>>,
    <<Literal("a"), CollectionExpression(<<Where>>), DocumentExpression(<<"name">>)>>,
    <<Literal("a"), Literal("b"), DocumentExpression(<<>>)>>,
    <<Literal("a"), All, Literal("b")>> }

ParseOutcomes ==
  {[ok |-> FALSE, components |-> <<>>, error |-> Some("ParseError")]}
    \cup {[ok |-> TRUE, components |-> cs, error |-> Null] : cs \in QueryStrings}

Init ==
  /\ queryComponents = <<>>
  /\ classified = Null
  /\ parsed = Null
  /\ walked = <<>>
  /\ ExecInit

\* the branch of query on onChangeListener, lines 24-28: whether the call
\* reaches setListener's onSnapshot registration rather than getResult
subscribesAlways(listener, thrown) == thrown.error = Null
subscribes(listener, thrown) == thrown.error = Null /\ listener

\* query(queryString, onChangeListener?), lines 18-34, up to its return or
\* its first await.  listener: whether onChangeListener is given; p: what
\* FQLParser.parse does; currentProject: what auth.getCurrentProject()
\* returns during the call.
QueryCall(listener, p, currentProject) ==
  LET queryType == getQueryType(p.components)
      c == connect(firebaseAppsInitialized, currentProject)
      w == walk(p.components)
      \* the first throw of the synchronous part, with the stage it comes from
      thrown ==
        IF ~p.ok THEN [stage |-> "parse", error |-> p.error]
        ELSE IF c.error # Null THEN [stage |-> "connect", error |-> c.error]
        ELSE IF w.error # Null THEN [stage |-> "build", error |-> w.error]
        ELSE IF listener /\ ~HasOnSnapshot(w.reference)
          THEN [stage |-> "subscribe", error |-> Some("TypeError")]
        ELSE IF ~listener /\ ~HasGet(w.reference)
          THEN [stage |-> "fetch", error |-> Some("TypeError")]
        ELSE [stage |-> "none", error |-> Null]
      caught == queryCatch(listener, thrown.error[1])
      built == thrown.stage \in {"subscribe", "fetch", "none"}
      \* the locals of the call; one the call never computed is left "none"
      \* or as parseQuery initialises it
      record ==
        [listener |-> listener,
         \* what auth.getCurrentProject() returned, once parseQuery has asked
         project |-> IF p.ok THEN currentProject ELSE "none",
         \* the project this call ran FirebaseAdmin.initializeApp for, if any
         initialized |-> IF p.ok THEN c.initialized ELSE Null,
         queryType |-> IF built THEN queryType ELSE "none",
         reference |-> IF built THEN w.reference ELSE RootRef,
         specificProperties |-> IF built THEN w.specificProperties ELSE <<>>,
         documentExpression |-> IF built THEN w.documentExpression ELSE FALSE,
         thrown |-> thrown,
         fetched |-> Null,
         handle |-> IF subscribes(listener, thrown)
                      THEN Len(subscriptions) + 1 ELSE 0,
         promise |-> IF thrown.error # Null THEN caught.promise
                     ELSE IF listener THEN Fulfilled(Null)
                     ELSE Pending]
  IN
  /\ queries' = Append(queries, record)
  /\ calls' = Append(calls, IF thrown.error # Null THEN caught.calls ELSE <<>>)
  \* parseQuery, lines 86-98
  /\ IF p.ok
       THEN /\ firebaseAppsInitialized' = c.apps
            /\ firestore' = IF c.error = Null THEN Some(currentProject) ELSE firestore
       ELSE UNCHANGED <<firebaseAppsInitialized, firestore>>
  \* setListener, lines 36-60: the onSnapshot registration
  /\ IF subscribes(listener, thrown)
       THEN LET r == register(subscriptions, unsubscribeListener,
                 [query |-> Len(queries) + 1, queryType |-> queryType,
                  reference |-> w.reference,
                  specificProperties |-> w.specificProperties,
                  status |-> "listening",
                  overwrote |-> IF unsubscribeListener = 0 THEN 0
                                ELSE Len(subscriptions[unsubscribeListener].emitted),
                  emitted |-> <<>>])
            IN /\ subscriptions' = r.subscriptions
               /\ unsubscribeListener' = r.unsubscribeListener
       ELSE UNCHANGED <<subscriptions, unsubscribeListener>>
  /\ UNCHANGED storeEvents
  /\ UNCHANGED pureVars

Query ==
  /\ Len(queries) < MaxQueries
  /\ \E listener \in BOOLEAN, p \in ParseOutcomes, currentProject \in Projects :
       \* a call whose parse throws never asks for the current project
       /\ p.ok \/ currentProject = "p1"
       /\ QueryCall(listener, p, currentProject)

\* getResult / query after the await of reference.get(), lines 156-172 and 28
FetchReturn ==
  \E q \in DOMAIN queries :
    /\ storeEvents < MaxEvents
    /\ queries[q].promise.state = "pending"
    /\ storeEvents' = storeEvents + 1
    /\ LET r == queries[q] IN
       \E snapshot \in IF r.reference.kind = "document"
                         THEN DocumentSnapshots(r.reference)
                         ELSE QuerySnapshots(r.reference) :
         LET res == IF r.queryType = DOCUMENT
                      THEN getResultDocument(r.reference, snapshot, r.specificProperties)
                      ELSE getResultCollection(snapshot, r.specificProperties)
         IN queries' = [queries EXCEPT ![q].promise =
               IF res.error # Null
                 THEN queryCatch(FALSE, res.error[1]).promise
                 ELSE Fulfilled(Some(QueryResult(res.documents, r.documentExpression))),
               ![q].thrown = IF res.error # Null
                                THEN [stage |-> "getResult", error |-> res.error]
                                ELSE @,
               ![q].fetched = Some(snapshot)]
    /\ UNCHANGED <<firebaseAppsInitialized, firestore,
                   unsubscribeListener, calls, subscriptions>>
    /\ UNCHANGED pureVars

\* reference.get() rejects: the store fails the fetch
FetchFail ==
  \E q \in DOMAIN queries :
    /\ storeEvents < MaxEvents
    /\ queries[q].promise.state = "pending"
    /\ storeEvents' = storeEvents + 1
    /\ queries' = [queries EXCEPT
                     ![q].promise = queryCatch(FALSE, "StoreError").promise,
                     ![q].thrown = [stage |-> "fetch", error |-> Some("StoreError")]]
    /\ UNCHANGED <<firebaseAppsInitialized, firestore,
                   unsubscribeListener, calls, subscriptions>>
    /\ UNCHANGED pureVars

\* the store notifies the snapshot callback of subscription s, lines 38-45
\* and 48-57
Notify ==
  \E s \in DOMAIN subscriptions :
    /\ storeEvents < MaxEvents
    /\ subscriptions[s].status = "listening"
    /\ LET sub == subscriptions[s] IN
       \E snapshot \in IF sub.reference.kind = "document"
                         THEN DocumentSnapshots(sub.reference)
                         ELSE QuerySnapshots(sub.reference) :
         /\ subscriptions' = [subscriptions EXCEPT ![s].emitted =
                                Append(@, [type |-> "snapshot", snapshot |-> Some(snapshot),
                                           error |-> Null])]
         /\ calls' = [calls EXCEPT ![sub.query] = deliver(@,
                        IF sub.queryType = DOCUMENT
                          THEN onDocumentSnapshot(snapshot, sub.specificProperties)
                          ELSE onQuerySnapshot(snapshot, sub.specificProperties))]
    /\ storeEvents' = storeEvents + 1
    /\ UNCHANGED <<firebaseAppsInitialized, firestore,
                   unsubscribeListener, queries>>
    /\ UNCHANGED pureVars

\* the store reports a transport error to the error callback of
\* subscription s, lines 46 and 58; the store ends the stream with the error
NotifyError ==
  \E s \in DOMAIN subscriptions :
    /\ storeEvents < MaxEvents
    /\ subscriptions[s].status = "listening"
    /\ subscriptions' = [subscriptions EXCEPT
                           ![s].emitted = Append(@, [type |-> "error", snapshot |-> Null,
                                                     error |-> Some("StoreError")]),
                           ![s].status = "ended"]
    /\ calls' = [calls EXCEPT ![subscriptions[s].query] =
                   deliver(@, onSnapshotError("StoreError"))]
    /\ storeEvents' = storeEvents + 1
    /\ UNCHANGED <<firebaseAppsInitialized, firestore,
                   unsubscribeListener, queries>>
    /\ UNCHANGED pureVars

\* a caller invokes the exported unsubscribeListener()
Unsubscribe ==
  /\ storeEvents < MaxEvents
  /\ unsubscribeListener # 0
  /\ subscriptions[unsubscribeListener].status = "listening"
  /\ subscriptions' = [subscriptions EXCEPT ![unsubscribeListener].status = "cancelled"]
  /\ storeEvents' = storeEvents + 1
  /\ UNCHANGED <<firebaseAppsInitialized, firestore,
                 unsubscribeListener, queries, calls>>
  /\ UNCHANGED pureVars

Next ==
  \/ Query
  \/ FetchReturn
  \/ FetchFail
  \/ Notify
  \/ NotifyError
  \/ Unsubscribe

Spec == Init /\ [][Next]_vars

(***************************************************************************)
(* ConnSpec: the same program with two projects that have a service        *)
(* account and one that has none, and fewer query strings: the calls       *)
(* differ in the project that is current when they are made, and overlap   *)
(* with the one-shot fetches still in flight.                              *)
(***************************************************************************)
ConnProjects == {"p1", "p2", "bad"}

ConnOutcomes ==
  {po \in ParseOutcomes :
     po.components \in {<<>>, <<Literal("a"), Literal("b"), DocumentExpression(<<>>)>>,
                         <<Literal("a"), All, Literal("b")>>}}

ConnQuery ==
  /\ Len(queries) < MaxConnQueries
  /\ \E listener \in BOOLEAN, p \in ConnOutcomes, currentProject \in ConnProjects :
       /\ p.ok \/ currentProject = "p1"
       /\ QueryCall(listener, p, currentProject)

\* the store's snapshot callbacks neither read nor write the connection
\* state, so ConnSpec leaves the notifications out
ConnNext ==
  \/ ConnQuery
  \/ FetchReturn
  \/ FetchFail

ConnSpec == Init /\ [][ConnNext]_vars

(***************************************************************************)
(* Claims                                                                  *)
(***************************************************************************)
RECURSIVE LiteralCount(_)
LiteralCount(cs) ==
  IF cs = <<>> THEN 0
  ELSE (IF Head(cs).type = LITERAL THEN 1 ELSE 0) + LiteralCount(Tail(cs))

\* C1: getQueryType returns COLLECTION when the number of Literal components
\* is odd and DOCUMENT when it is even (zero included), whatever non-literal
\* components (All, CollectionExpression, DocumentExpression) the sequence holds.
C1_LiteralParity ==
  classified # Null =>
    classified[1] = IF LiteralCount(queryComponents) \in {1, 3, 5, 7}
                      THEN COLLECTION ELSE DOCUMENT

\* an odd number of literals among an even number of components, classified
C1_Witness ==
  /\ classified = Some(COLLECTION)
  /\ LiteralCount(queryComponents) = 3
  /\ Len(queryComponents) = 4

OneShot(q) == q \in DOMAIN queries /\ ~queries[q].listener
Live(q) == q \in DOMAIN queries /\ queries[q].listener

\* C2: a one-shot query classified DOCUMENT whose fetched snapshot does not
\* exist is rejected with 'No such document' and carries no result; one whose
\* snapshot exists is fulfilled with exactly one Document, metadata.exists true.
C2_OneShotDocument ==
  \A q \in DOMAIN queries :
    (OneShot(q) /\ queries[q].queryType = DOCUMENT /\ queries[q].fetched # Null) =>
      LET snapshot == queries[q].fetched[1]
          promise == queries[q].promise
      IN IF snapshot.exists
           THEN /\ promise.state = "fulfilled"
                /\ promise.error = Null
                /\ Len(promise.value) = 1
                /\ Len(promise.value[1].documents) = 1
                /\ promise.value[1].documents[1].exists
           ELSE /\ promise.state = "rejected"
                /\ promise.error = Some("No such document")
                /\ promise.value = Null

\* one one-shot DOCUMENT query was rejected for a missing document and
\* another returned its document
C2_Witness ==
  \E q1, q2 \in DOMAIN queries :
    /\ OneShot(q1) /\ queries[q1].queryType = DOCUMENT
    /\ queries[q1].fetched # Null /\ ~queries[q1].fetched[1].exists
    /\ queries[q1].promise.state = "rejected"
    /\ OneShot(q2) /\ queries[q2].queryType = DOCUMENT
    /\ queries[q2].fetched # Null /\ queries[q2].fetched[1].exists
    /\ queries[q2].promise.state = "fulfilled"

\* C3: a one-shot query classified COLLECTION is fulfilled with one Document
\* per snapshot the store returned, the i-th Document bound to the location of
\* the i-th snapshot.
C3_OneShotCollectionOrder ==
  \A q \in DOMAIN queries :
    (OneShot(q) /\ queries[q].queryType = COLLECTION /\ queries[q].fetched # Null) =>
      LET snapshot == queries[q].fetched[1]
          promise == queries[q].promise
      IN /\ promise.state = "fulfilled"
         /\ Len(promise.value) = 1
         /\ Len(promise.value[1].documents) = Len(snapshot)
         /\ \A i \in DOMAIN snapshot :
              promise.value[1].documents[i].location = snapshot[i].ref

\* the store returned y before x and the result lists y before x
C3_Witness ==
  \E q \in DOMAIN queries :
    /\ OneShot(q) /\ queries[q].queryType = COLLECTION
    /\ queries[q].fetched # Null
    /\ Len(queries[q].fetched[1]) = 2
    /\ queries[q].fetched[1][1].ref.path = <<"a", "y">>
    /\ queries[q].fetched[1][2].ref.path = <<"a", "x">>
    /\ queries[q].promise.state = "fulfilled"
    /\ queries[q].promise.value[1].documents[1].location.path = <<"a", "y">>

Sub(s) == subscriptions[s]
CallsOf(s) == calls[subscriptions[s].query]
Refs(snapshot) == [i \in DOMAIN snapshot |-> snapshot[i].ref]
Locations(documents) == [i \in DOMAIN documents |-> documents[i].location]

\* C4: a live registration leaves its own handle in the single slot; a
\* subscription is cancelled only through the slot while the slot holds its
\* handle, so one whose handle was overwritten stays registered; and every
\* store notification for a subscription, overwritten or not, invokes its
\* listener.
C4_OverwrittenKeepsFiring ==
  [][/\ unsubscribeListener' = Len(subscriptions')
     /\ \A s \in DOMAIN subscriptions :
          /\ (Sub(s).status = "listening" /\ subscriptions'[s].status = "cancelled")
               => /\ s = unsubscribeListener
                  /\ Len(subscriptions') = Len(subscriptions)
          /\ Len(subscriptions'[s].emitted) > Len(Sub(s).emitted)
               => Len(calls'[Sub(s).query]) = Len(CallsOf(s)) + 1]_vars

\* two live subscriptions: the slot holds the second handle, calling it has
\* cancelled the second only, and the first listener was invoked for a
\* notification that came after the second registration
C4_Witness ==
  /\ Len(subscriptions) = 2
  /\ unsubscribeListener = 2
  /\ Sub(2).status = "cancelled"
  /\ Sub(1).status = "listening"
  /\ Len(Sub(1).emitted) > Sub(2).overwrote
  /\ Len(CallsOf(1)) = Len(Sub(1).emitted)

\* C5: in a live COLLECTION subscription every store event causes one
\* listener call, and the call for a change notification has a null error and
\* a result with one Document per document of that snapshot, in snapshot order.
C5_LiveCollectionFullList ==
  \A s \in DOMAIN subscriptions :
    Sub(s).queryType = COLLECTION =>
      /\ Len(CallsOf(s)) = Len(Sub(s).emitted)
      /\ \A i \in DOMAIN Sub(s).emitted :
           Sub(s).emitted[i].type = "snapshot" =>
             /\ CallsOf(s)[i].error = Null
             /\ Len(CallsOf(s)[i].result) = 1
             /\ Locations(CallsOf(s)[i].result[1].documents)
                  = Refs(Sub(s).emitted[i].snapshot[1])

\* a notification with two documents followed by one with a single document:
\* the second call holds that single document
C5_Witness ==
  \E s \in DOMAIN subscriptions :
    /\ Sub(s).queryType = COLLECTION
    /\ Len(Sub(s).emitted) = 2
    /\ Sub(s).emitted[1].type = "snapshot" /\ Len(Sub(s).emitted[1].snapshot[1]) = 2
    /\ Sub(s).emitted[2].type = "snapshot" /\ Len(Sub(s).emitted[2].snapshot[1]) = 1
    /\ Len(CallsOf(s)) = 2
    /\ Len(CallsOf(s)[2].result[1].documents) = 1

\* C6: in a live DOCUMENT subscription a notification whose snapshot does not
\* exist is delivered as (null, 'No such document') and one whose snapshot
\* exists as (result with exactly one Document, null); only a store error
\* ends the stream, a missing document does not.
C6_LiveDocument ==
  \A s \in DOMAIN subscriptions :
    Sub(s).queryType = DOCUMENT =>
      /\ Len(CallsOf(s)) = Len(Sub(s).emitted)
      /\ \A i \in DOMAIN Sub(s).emitted :
           Sub(s).emitted[i].type = "snapshot" =>
             IF Sub(s).emitted[i].snapshot[1].exists
               THEN /\ CallsOf(s)[i].error = Null
                    /\ Len(CallsOf(s)[i].result) = 1
                    /\ Len(CallsOf(s)[i].result[1].documents) = 1
               ELSE /\ CallsOf(s)[i].result = Null
                    /\ CallsOf(s)[i].error = Some("No such document")
      /\ Sub(s).status = "ended" =>
           /\ Sub(s).emitted # <<>>
           /\ Sub(s).emitted[Len(Sub(s).emitted)].type = "error"

\* the document was missing, then existed again: NotFound, then a result
C6_Witness ==
  \E s \in DOMAIN subscriptions :
    /\ Sub(s).queryType = DOCUMENT
    /\ Len(Sub(s).emitted) = 2
    /\ Sub(s).emitted[1].type = "snapshot" /\ ~Sub(s).emitted[1].snapshot[1].exists
    /\ Sub(s).emitted[2].type = "snapshot" /\ Sub(s).emitted[2].snapshot[1].exists
    /\ Len(CallsOf(s)) = 2
    /\ CallsOf(s)[1].error = Some("No such document")
    /\ CallsOf(s)[2].result # Null

\* C7: every listener invocation passes exactly one non-null argument; a
\* store transport error is delivered as (null, error); and the store holds
\* exactly the subscriptions the query calls registered, one per successful
\* live call, so no subscription is issued in response to an error.
C7_ExactlyOneArgument ==
  /\ \A q \in DOMAIN queries :
       /\ ~queries[q].listener => calls[q] = <<>>
       /\ \A i \in DOMAIN calls[q] :
            (calls[q][i].result = Null) # (calls[q][i].error = Null)
  /\ \A s \in DOMAIN subscriptions :
       /\ queries[Sub(s).query].handle = s
       /\ \A i \in DOMAIN Sub(s).emitted :
            (Sub(s).emitted[i].type = "error" /\ i \in DOMAIN CallsOf(s)) =>
              CallsOf(s)[i] = [result |-> Null, error |-> Sub(s).emitted[i].error]
  /\ \A q \in DOMAIN queries :
       queries[q].handle # 0 =>
         /\ queries[q].handle \in DOMAIN subscriptions
         /\ Sub(queries[q].handle).query = q

\* one listener got a result and then a transport error, another got the
\* failure of its own call
C7_Witness ==
  \E q1, q2 \in DOMAIN queries :
    /\ Live(q1) /\ Len(calls[q1]) = 2
    /\ calls[q1][1].result # Null
    /\ calls[q1][2] = [result |-> Null, error |-> Some("StoreError")]
    /\ Sub(queries[q1].handle).status = "ended"
    /\ Live(q2) /\ queries[q2].handle = 0
    /\ Len(calls[q2]) = 1 /\ calls[q2][1].result = Null
    /\ Len(subscriptions) = 1

\* what a listener call shows of the store event it answers
Answers(call, event, queryType) ==
  IF event.type = "error" THEN call.result = Null /\ call.error = event.error
  ELSE IF queryType = DOCUMENT THEN (call.result # Null) = event.snapshot[1].exists
  ELSE /\ call.result # Null
       /\ Locations(call.result[1].documents) = Refs(event.snapshot[1])

\* C8: within one subscription the listener calls are, one for one and in
\* order, the answers to the events the store emitted.
C8_InOrderOnePerNotification ==
  \A s \in DOMAIN subscriptions :
    /\ Len(CallsOf(s)) = Len(Sub(s).emitted)
    /\ \A i \in DOMAIN Sub(s).emitted :
         Answers(CallsOf(s)[i], Sub(s).emitted[i], Sub(s).queryType)

\* a subscription whose store emitted a two-document snapshot and then a
\* different one: the first call answers the first, the second the second
C8_Witness ==
  \E s \in DOMAIN subscriptions :
    /\ Sub(s).queryType = COLLECTION
    /\ Len(Sub(s).emitted) = 2
    /\ Sub(s).emitted[1].type = "snapshot"
    /\ Len(Sub(s).emitted[1].snapshot[1]) = 2
    /\ Sub(s).emitted[2] # Sub(s).emitted[1]
    /\ Len(CallsOf(s)) = 2
    /\ Len(CallsOf(s)[1].result[1].documents) = 2
    /\ CallsOf(s)[2] # CallsOf(s)[1]

CollaboratorStages == {"parse", "connect", "build", "subscribe", "fetch"}

\* C9: a failure raised by a collaborator during a query reaches the caller
\* unchanged: without a listener the returned promise is rejected with that
\* same error; with a listener the listener is invoked exactly once for it,
\* with a null result and that error.
C9_FailurePropagatedUnchanged ==
  \A q \in DOMAIN queries :
    queries[q].thrown.stage \in CollaboratorStages =>
      IF queries[q].listener
        THEN calls[q] = <<[result |-> Null, error |-> queries[q].thrown.error]>>
        ELSE /\ queries[q].promise.state = "rejected"
             /\ queries[q].promise.error = queries[q].thrown.error
             /\ queries[q].promise.value = Null
             /\ calls[q] = <<>>

\* a live call that failed before registering and a one-shot call whose
\* fetch the store failed
C9_Witness ==
  \E q1, q2 \in DOMAIN queries :
    /\ Live(q1) /\ queries[q1].thrown.stage \in {"parse", "connect", "build"}
    /\ Len(calls[q1]) = 1
    /\ OneShot(q2) /\ queries[q2].thrown = [stage |-> "fetch", error |-> Some("StoreError")]
    /\ queries[q2].promise.state = "rejected"

\* C10: when query is called with a listener the returned promise carries
\* neither a result nor an error, whatever the outcome of the call.
C10_NothingThroughPromise ==
  \A q \in DOMAIN queries :
    queries[q].listener =>
      /\ queries[q].promise.value = Null
      /\ queries[q].promise.error = Null

Parsed(q) == q \in DOMAIN queries /\ queries[q].project # "none"

\* C11: over any interleaving of one-shot and live query calls, with fetches
\* in flight and the current project changing between calls, each project is
\* initialised at most once, by the first call that reaches parseQuery with
\* that project current; every later call for it initialises nothing and does
\* not fail to connect; firebaseAppsInitialized never holds a duplicate.
C11_InitializedOnce ==
  /\ \A i, j \in DOMAIN firebaseAppsInitialized :
       i # j => firebaseAppsInitialized[i] # firebaseAppsInitialized[j]
  /\ \A q1, q2 \in DOMAIN queries :
       (q1 < q2 /\ Parsed(q1) /\ Parsed(q2)
          /\ queries[q1].project = queries[q2].project) =>
         /\ queries[q2].initialized = Null
         /\ queries[q1].thrown.stage # "connect" => queries[q2].thrown.stage # "connect"
  /\ \A q \in DOMAIN queries :
       queries[q].initialized # Null =>
         /\ queries[q].initialized = Some(queries[q].project)
         /\ queries[q].project \in Range(firebaseAppsInitialized)
  /\ \A q \in DOMAIN queries :
       (Parsed(q) /\ queries[q].thrown.stage # "connect") =>
         \E q0 \in 1..q : /\ queries[q0].project = queries[q].project
                          /\ queries[q0].initialized = Some(queries[q].project)

\* p1 was initialised by a one-shot call whose fetch is still in flight, the
\* project changed to p2 and back, and the third call reused p1's connection
C11_Witness ==
  /\ Len(queries) = 3
  /\ firebaseAppsInitialized = <<"p1", "p2">>
  /\ queries[1].project = "p1" /\ queries[1].initialized = Some("p1")
  /\ ~queries[1].listener /\ queries[1].promise.state = "pending"
  /\ queries[2].project = "p2" /\ queries[2].initialized = Some("p2")
  /\ queries[3].project = "p1" /\ queries[3].initialized = Null
  /\ queries[3].thrown.error = Null

\* the i-th component is processed: the walk has run and nothing threw
\* before it
Processed(i) ==
  /\ walked # <<>>
  /\ i \in DOMAIN queryComponents
  /\ walked[i].error = Null

\* C12: a CollectionExpression processed while the cursor is a document or
\* the store root changes nothing: the reference (its refinements included),
\* the flag and the projection stay as they were and nothing is thrown, and
\* the walk goes on with the next component.
C12_ExpressionOnDocumentIgnored ==
  \A i \in DOMAIN queryComponents :
    (/\ Processed(i)
     /\ queryComponents[i].type = COLLECTION_EXPRESSION
     /\ walked[i].reference.kind \in {"document", "firestore"}) =>
      /\ walked[i + 1] = walked[i]
      /\ walked[i + 1].error = Null

\* users/abc followed by a collection expression and a projection: the
\* expression left the document cursor alone and the projection was still read
C12_Witness ==
  /\ Len(queryComponents) = 4
  /\ queryComponents[3].type = COLLECTION_EXPRESSION
  /\ queryComponents[4].type = DOCUMENT_EXPRESSION
  /\ walked # <<>>
  /\ walked[3].reference.kind = "document"
  /\ walked[4].reference = walked[3].reference
  /\ walked[5].documentExpression
  /\ parsed # Null /\ parsed[1] = walked[5]

OnlyLiterals == \A i \in DOMAIN queryComponents : queryComponents[i].type = LITERAL
Values(cs) == [i \in DOMAIN cs |-> cs[i].value]

\* C13: for a sequence made only of Literal components the walk starts at the
\* store root expecting a collection and alternates: the 1st, 3rd, ... literal
\* navigates into a child collection, the 2nd, 4th, ... into a child document;
\* the built reference's path is the literals in order and it is a collection
\* exactly when the number of literals is odd.
C13_LiteralsAlternate ==
  (OnlyLiterals /\ parsed # Null /\ walked # <<>>) =>
    /\ walked[1].reference = RootRef /\ walked[1].collection
    /\ \A i \in DOMAIN queryComponents :
         /\ walked[i + 1].error = Null
         /\ walked[i + 1].reference.kind =
              IF i \in {1, 3, 5, 7} THEN "collection" ELSE "document"
         /\ walked[i + 1].reference.path = Values(SubSeq(queryComponents, 1, i))
    /\ parsed[1].error = Null
    /\ parsed[1].reference.path = Values(queryComponents)
    /\ (parsed[1].reference.kind = "collection")
         = (Len(queryComponents) \in {1, 3, 5, 7})

\* a/b/a: collection a, document a/b, collection a/b/a
C13_Witness ==
  /\ queryComponents = <<Literal("a"), Literal("b"), Literal("a")>>
  /\ parsed # Null
  /\ parsed[1].reference.kind = "collection"
  /\ parsed[1].reference.path = <<"a", "b", "a">>
  /\ walked # <<>>
  /\ walked[3].reference.kind = "document"

DocumentExpressionsAt ==
  {i \in DOMAIN queryComponents : queryComponents[i].type = DOCUMENT_EXPRESSION}
LastOf(S) == CHOOSE i \in S : \A j \in S : j <= i

\* C14: processing a DocumentExpression, wherever it stands, makes the
\* projection active with its field list and leaves the cursor and the
\* expecting-collection flag unchanged; parseQuery returns the field list of
\* the last DocumentExpression with documentExpression true, and an empty list
\* with documentExpression false when the sequence holds none.
C14_DocumentExpressionSetsProjection ==
  /\ \A i \in DOMAIN queryComponents :
       (Processed(i) /\ queryComponents[i].type = DOCUMENT_EXPRESSION) =>
         /\ walked[i + 1].specificProperties = queryComponents[i].components
         /\ walked[i + 1].documentExpression
         /\ walked[i + 1].reference = walked[i].reference
         /\ walked[i + 1].collection = walked[i].collection
         /\ walked[i + 1].error = Null
  /\ (parsed # Null /\ parsed[1].error = Null) =>
       IF DocumentExpressionsAt = {}
         THEN /\ ~parsed[1].documentExpression
              /\ parsed[1].specificProperties = <<>>
         ELSE /\ parsed[1].documentExpression
              /\ parsed[1].specificProperties =
                   queryComponents[LastOf(DocumentExpressionsAt)].components

\* a projection on name at the front, literals, and a second projection with
\* no field at the end: the walk returns the second one, from a collection
C14_Witness ==
  /\ Len(queryComponents) = 3
  /\ queryComponents[1] = DocumentExpression(<<"name">>)
  /\ queryComponents[2].type = LITERAL
  /\ queryComponents[3] = DocumentExpression(<<>>)
  /\ walked # <<>>
  /\ walked[2].specificProperties = <<"name">>
  /\ walked[2].reference = RootRef
  /\ parsed # Null
  /\ parsed[1].documentExpression
  /\ parsed[1].specificProperties = <<>>
  /\ parsed[1].reference.kind = "collection"

\* the snapshots a store answer holds, one per document
DocumentsOf(snapshot, queryType) ==
  IF queryType = DOCUMENT THEN <<snapshot>> ELSE snapshot

\* the Document built from a snapshot honours the projection of call q
HonoursProjection(q, document, snapshot) ==
  IF queries[q].documentExpression
    THEN DOMAIN document.data \subseteq Range(queries[q].specificProperties)
    ELSE document.data = snapshot.data

\* C15: in one-shot and in live mode, the data of every delivered Document
\* holds only fields of the projection list when the projection is active (a
\* DocumentExpression was seen) and every field of the snapshot when it is not.
C15_ProjectionHonoured ==
  /\ \A q \in DOMAIN queries :
       (OneShot(q) /\ queries[q].promise.state = "fulfilled") =>
         LET documents == queries[q].promise.value[1].documents
             snapshots == DocumentsOf(queries[q].fetched[1], queries[q].queryType)
         IN \A i \in DOMAIN documents : HonoursProjection(q, documents[i], snapshots[i])
  /\ \A s \in DOMAIN subscriptions :
       \A i \in DOMAIN Sub(s).emitted :
         (i \in DOMAIN CallsOf(s) /\ CallsOf(s)[i].result # Null) =>
           LET documents == CallsOf(s)[i].result[1].documents
               snapshots == DocumentsOf(Sub(s).emitted[i].snapshot[1], Sub(s).queryType)
           IN \A j \in DOMAIN documents :
                HonoursProjection(Sub(s).query, documents[j], snapshots[j])

\* C19: the projected flag of every result, one-shot or live, says whether a
\* DocumentExpression was seen, so the two modes never disagree on it, also
\* when the DocumentExpression lists no field.
C19_ProjectedSameInBothModes ==
  /\ \A q \in DOMAIN queries :
       (OneShot(q) /\ queries[q].promise.state = "fulfilled") =>
         queries[q].promise.value[1].projected = queries[q].documentExpression
  /\ \A q \in DOMAIN queries :
       Live(q) => \A i \in DOMAIN calls[q] :
         calls[q][i].result # Null =>
           calls[q][i].result[1].projected = queries[q].documentExpression

DenotesCollection(ref) == ref.kind \in {"collection", "query"}
DenotesDocument(ref) == ref.kind = "document"

\* the where / limit / order sub-components of an expression, in listed order
Refinements(ecs) == SelectSeq(ecs, LAMBDA ec : ec.type \in {"where", "limit", "order"})

\* C16: every where / limit / order sub-component of every CollectionExpression
\* processed while the cursor denotes a collection, refined already or not, is
\* applied to the reference exactly once, after the refinements applied so far
\* and in listed order.
C16_RefinementsAppliedInOrder ==
  \A i \in DOMAIN queryComponents :
    (/\ Processed(i)
     /\ queryComponents[i].type = COLLECTION_EXPRESSION
     /\ DenotesCollection(walked[i].reference)) =>
      /\ walked[i + 1].error = Null
      /\ walked[i + 1].reference.path = walked[i].reference.path
      /\ walked[i + 1].reference.refinements =
           walked[i].reference.refinements \o Refinements(queryComponents[i].components)

\* C17: processing an All component sets the expecting-collection flag and
\* changes nothing else, and a Literal that follows it is navigated as a child
\* collection of the cursor, whatever the flag was before.
C17_AllForcesCollection ==
  \A i \in DOMAIN queryComponents :
    (Processed(i) /\ queryComponents[i].type = ALL) =>
      /\ walked[i + 1] = [walked[i] EXCEPT !.collection = TRUE]
      /\ (i + 1 \in DOMAIN queryComponents /\ queryComponents[i + 1].type = LITERAL) =>
           /\ walked[i + 2].error = Null
           /\ walked[i + 2].reference.kind = "collection"
           /\ walked[i + 2].reference.path =
                Append(walked[i].reference.path, queryComponents[i + 1].value)

\* C18: the type getQueryType computes agrees with the reference parseQuery
\* builds over the same sequence: DOCUMENT exactly when the final cursor
\* denotes a document, COLLECTION exactly when it denotes a collection.
C18_TypeAgreesWithReference ==
  (classified # Null /\ parsed # Null /\ parsed[1].error = Null) =>
    /\ (classified[1] = DOCUMENT) = DenotesDocument(parsed[1].reference)
    /\ (classified[1] = COLLECTION) = DenotesCollection(parsed[1].reference)

\* C20: the unsubscribe slot and the set of subscriptions change only in a
\* step where a live query registers with the store without throwing; a
\* one-shot query and a query failing in parsing, connection or building
\* leave both as they were; no subscription belongs to a one-shot query and
\* no live query has a fetch pending or answered.
C20_SlotChangesOnlyOnRegistration ==
  [][/\ (\/ unsubscribeListener' # unsubscribeListener
         \/ Len(subscriptions') # Len(subscriptions)) =>
          /\ Len(queries') = Len(queries) + 1
          /\ queries'[Len(queries')].listener
          /\ queries'[Len(queries')].thrown.error = Null
          /\ Len(subscriptions') = Len(subscriptions) + 1
          /\ unsubscribeListener' = Len(subscriptions')
          /\ subscriptions'[Len(subscriptions')].query = Len(queries')
     /\ (/\ Len(queries') = Len(queries) + 1
         /\ \/ ~queries'[Len(queries')].listener
            \/ queries'[Len(queries')].thrown.stage \in {"parse", "connect", "build"}) =>
          /\ unsubscribeListener' = unsubscribeListener
          /\ Len(subscriptions') = Len(subscriptions)
     /\ \A s \in DOMAIN subscriptions' : queries'[subscriptions'[s].query].listener
     /\ \A q \in DOMAIN queries' :
          /\ ~queries'[q].listener => queries'[q].handle = 0
          /\ queries'[q].listener =>
               /\ queries'[q].fetched = Null
               /\ queries'[q].promise # Pending
               /\ queries'[q].thrown.stage # "fetch"]_vars

\* a subscription is registered, then a one-shot query is answered and the
\* slot still holds the subscription's handle
C20_Witness ==
  /\ Len(queries) = 2
  /\ Live(1) /\ queries[1].handle = 1
  /\ OneShot(2) /\ queries[2].fetched # Null
  /\ unsubscribeListener = 1
  /\ Len(subscriptions) = 1

====
